---------------------------- MODULE Spec2Model ----------------------------
(***************************************************************************)
(* Model of the multi-format invoice layout core of Simple-POS             *)
(* (src/invoice_formats.py): the BillFormatRegistry, the AutoLayoutEngine  *)
(* and the ThermalOptimizer.                                               *)
(*                                                                         *)
(* Representation.                                                         *)
(*  - A Python str is a sequence of one-character strings.                 *)
(*  - Lengths in mm that the code keeps as int are integers.  The float    *)
(*    factors of the code (0.85, 0.6, 0.45, 2.5, the font scales, the      *)
(*    column fractions) are exact rationals: a product p * 0.85 is the     *)
(*    integer p * 85 in hundredths, int(x / 2.5) is (2 * x) \div 5, and    *)
(*    int(...) truncates towards zero like Python's int().                 *)
(*  - Optional[int] is <<>> (None) or <<k>>.                               *)
(*  - A Margins object is shared by reference: a LayoutConfig holds the    *)
(*    key of the DEFAULT_MARGINS entry it was given, and reads go through  *)
(*    the table.                                                           *)
(* One request to the core is a registry or formatter call, or an engine   *)
(* built on a default config followed by one engine call.  A request is    *)
(* made when the caller is idle; the state then keeps the request and what *)
(* it returned until the caller drops the result (Return).                 *)
(* Spec is the core as the program drives it.  SpecWrites is a client that *)
(* assigns to the fields of the configs it was given, SpecReplay a client  *)
(* that keeps a result and repeats the call later, and SpecGenerator the   *)
(* EnhancedInvoiceGenerator (src/invoice_generator_enhanced.py) on top of  *)
(* the core.                                                               *)
(***************************************************************************)
EXTENDS Integers, Sequences, FiniteSets, TLC

VARIABLES
    DEFAULT_MARGINS,  \* BillFormatRegistry.DEFAULT_MARGINS (class attribute)
    config,           \* AutoLayoutEngine.config of the request's engine
    op,               \* the operation the request called
    args,             \* its arguments
    ret,              \* its return value
    held,             \* a result an earlier caller still holds
    calls,            \* the generator methods the request has run, in order
    files             \* the output files that exist

vars == <<DEFAULT_MARGINS, config, op, args, ret, held, calls, files>>

---------------------------------------------------------------------------
(* Arithmetic helpers for the code's int(), min(), max(), abs().           *)

Min(a, b) == IF a <= b THEN a ELSE b

Max(a, b) == IF a >= b THEN a ELSE b

Abs(a) == IF a >= 0 THEN a ELSE -a

\* int(num / den) for den > 0: truncation toward zero
IntTrunc(num, den) == IF num >= 0 THEN num \div den ELSE -((-num) \div den)

\* text[:k] with Python's slice semantics (negative k counts from the end)
PyPrefix(s, k) ==
    IF k >= 0 THEN SubSeq(s, 1, Min(k, Len(s)))
    ELSE SubSeq(s, 1, Max(Len(s) + k, 0))

\* seq[i:j] for 0 <= i, 0 <= j
PySlice(s, i, j) == SubSeq(s, Min(i, Len(s)) + 1, Min(j, Len(s)))

Ellipsis == <<".", ".", ".">>

None == <<>>

Some(k) == <<k>>

---------------------------------------------------------------------------
(* BillSize, LayoutStyle                                                   *)

\* the members of BillSize in definition (= iteration) order
BillSizeOrder ==
    << "A5", "A4", "A3", "HALF_LETTER", "LETTER", "LEGAL",
       "THERMAL_57", "THERMAL_58", "THERMAL_76", "THERMAL_80",
       "QUARTER_LETTER", "LONG_STRIP", "CASH_RECEIPT" >>

BillSize ==
    [ A5             |-> [width_mm |-> 148, height_mm |-> 210, category |-> "paper"],
      A4             |-> [width_mm |-> 210, height_mm |-> 297, category |-> "paper"],
      A3             |-> [width_mm |-> 297, height_mm |-> 420, category |-> "paper"],
      HALF_LETTER    |-> [width_mm |-> 140, height_mm |-> 216, category |-> "paper"],
      LETTER         |-> [width_mm |-> 216, height_mm |-> 279, category |-> "paper"],
      LEGAL          |-> [width_mm |-> 216, height_mm |-> 356, category |-> "paper"],
      THERMAL_57     |-> [width_mm |-> 57,  height_mm |-> 0,   category |-> "thermal"],
      THERMAL_58     |-> [width_mm |-> 58,  height_mm |-> 0,   category |-> "thermal"],
      THERMAL_76     |-> [width_mm |-> 76,  height_mm |-> 0,   category |-> "thermal"],
      THERMAL_80     |-> [width_mm |-> 80,  height_mm |-> 0,   category |-> "thermal"],
      QUARTER_LETTER |-> [width_mm |-> 108, height_mm |-> 216, category |-> "paper"],
      LONG_STRIP     |-> [width_mm |-> 70,  height_mm |-> 194, category |-> "paper"],
      CASH_RECEIPT   |-> [width_mm |-> 109, height_mm |-> 189, category |-> "paper"] ]

Sizes == { BillSizeOrder[i] : i \in 1..Len(BillSizeOrder) }

\* is_thermal judging by the width: up to the 80 mm of the widest roll
is_thermal_ByWidth(size) == BillSize[size].width_mm <= 80

is_thermal(size) == BillSize[size].category = "thermal"

is_continuous(size) == BillSize[size].height_mm = 0

LayoutStyle == { "CLASSIC", "MINIMAL", "COMPACT", "DETAILED" }

---------------------------------------------------------------------------
(* Margins, FontSettings                                                   *)

Margins(top, right, bottom, left) ==
    [top |-> top, right |-> right, bottom |-> bottom, left |-> left]

horizontal_total(m) == m.left + m.right

vertical_total(m) == m.top + m.bottom

FontSettings(base, title, header, item, footer) ==
    [ base_size |-> base, title_size |-> title, header_size |-> header,
      item_size |-> item, footer_size |-> footer,
      mono_font |-> "Courier", sans_font |-> "Helvetica" ]

\* FontSettings.scale that rounds every size up instead of truncating it
scale_RoundsUp(f, factor) ==
    [ base_size   |-> -IntTrunc(-(f.base_size * factor) - 99, 100),
      title_size  |-> -IntTrunc(-(f.title_size * factor) - 99, 100),
      header_size |-> -IntTrunc(-(f.header_size * factor) - 99, 100),
      item_size   |-> -IntTrunc(-(f.item_size * factor) - 99, 100),
      footer_size |-> -IntTrunc(-(f.footer_size * factor) - 99, 100),
      mono_font   |-> f.mono_font,
      sans_font   |-> f.sans_font ]

\* FontSettings.scale; the factor is given in hundredths
scale(f, factor) ==
    [ base_size   |-> IntTrunc(f.base_size * factor, 100),
      title_size  |-> IntTrunc(f.title_size * factor, 100),
      header_size |-> IntTrunc(f.header_size * factor, 100),
      item_size   |-> IntTrunc(f.item_size * factor, 100),
      footer_size |-> IntTrunc(f.footer_size * factor, 100),
      mono_font   |-> f.mono_font,
      sans_font   |-> f.sans_font ]

---------------------------------------------------------------------------
(* BillFormatRegistry tables                                               *)

\* the initial value of the class attribute DEFAULT_MARGINS
InitialDefaultMargins ==
    [ paper   |-> [ large  |-> Margins(15, 15, 15, 15),
                    medium |-> Margins(12, 12, 12, 12),
                    small  |-> Margins(10, 10, 10, 10),
                    strip  |-> Margins(5, 5, 5, 5) ],
      thermal |-> [ standard |-> Margins(3, 3, 3, 3),
                    minimal  |-> Margins(2, 2, 2, 2) ] ]

MIN_MARGINS ==
    [ paper   |-> Margins(5, 5, 5, 5),
      thermal |-> Margins(2, 2, 2, 2) ]

\* FONT_SCALES in hundredths
FONT_SCALES ==
    [ A3 |-> 120, A4 |-> 100, A5 |-> 85, LETTER |-> 100, LEGAL |-> 100,
      HALF_LETTER |-> 85,
      THERMAL_80 |-> 80, THERMAL_76 |-> 75, THERMAL_58 |-> 70, THERMAL_57 |-> 70,
      QUARTER_LETTER |-> 80, LONG_STRIP |-> 75, CASH_RECEIPT |-> 80 ]

\* cls.FONT_SCALES.get(size, 1.0)
FontScaleOf(size) ==
    IF size \in DOMAIN FONT_SCALES THEN FONT_SCALES[size] ELSE 100

\* the Margins object a config's margins attribute refers to
MarginsAt(table, ref) == table[ref[1]][ref[2]]


---------------------------------------------------------------------------
(* LayoutConfig                                                            *)

printable_width_mm(cfg) ==
    BillSize[cfg.size].width_mm
        - horizontal_total(MarginsAt(DEFAULT_MARGINS, cfg.margins))

printable_height_mm(cfg) ==
    IF is_continuous(cfg.size) THEN 0
    ELSE BillSize[cfg.size].height_mm
            - vertical_total(MarginsAt(DEFAULT_MARGINS, cfg.margins))

---------------------------------------------------------------------------
(* BillFormatRegistry                                                      *)

\* DefaultMarginsRef with the COMPACT style given the minimal thermal margins
\* on every size, as the column-width branch tests the style
DefaultMarginsRef_CompactAnySize(size, style) ==
    IF is_thermal(size) \/ style = "COMPACT"
    THEN <<"thermal", IF style = "COMPACT" THEN "minimal" ELSE "standard">>
    ELSE IF size \in {"A3", "LETTER", "LEGAL"} THEN <<"paper", "large">>
    ELSE IF size \in {"A4"} THEN <<"paper", "medium">>
    ELSE IF size \in {"A5", "HALF_LETTER"} THEN <<"paper", "small">>
    ELSE <<"paper", "strip">>

\* the "Determine margins" branch of get_default_config: which
\* DEFAULT_MARGINS entry the config is given
DefaultMarginsRef(size, style) ==
    IF is_thermal(size)
    THEN <<"thermal", IF style = "COMPACT" THEN "minimal" ELSE "standard">>
    ELSE IF size \in {"A3", "LETTER", "LEGAL"} THEN <<"paper", "large">>
    ELSE IF size \in {"A4"} THEN <<"paper", "medium">>
    ELSE IF size \in {"A5", "HALF_LETTER"} THEN <<"paper", "small">>
    ELSE <<"paper", "strip">>

\* DefaultColumnWidths with the DETAILED description column added to the
\* classic columns
DefaultColumnWidths_DescriptionAdded(size, style) ==
    IF style = "COMPACT" \/ is_thermal(size)
    THEN [item |-> 45, qty |-> 15, price |-> 20, total |-> 20]
    ELSE IF style = "DETAILED"
    THEN [item |-> 40, description |-> 25, qty |-> 15, price |-> 20, total |-> 25]
    ELSE [item |-> 40, qty |-> 15, price |-> 20, total |-> 25]

\* DefaultColumnWidths testing the DETAILED style before the thermal sizes
DefaultColumnWidths_DetailedFirst(size, style) ==
    IF style = "DETAILED"
    THEN [item |-> 35, description |-> 25, qty |-> 10, price |-> 15, total |-> 15]
    ELSE IF style = "COMPACT" \/ is_thermal(size)
    THEN [item |-> 45, qty |-> 15, price |-> 20, total |-> 20]
    ELSE [item |-> 40, qty |-> 15, price |-> 20, total |-> 25]

\* the "Column widths" branch, in hundredths
DefaultColumnWidths(size, style) ==
    IF style = "COMPACT" \/ is_thermal(size)
    THEN [item |-> 45, qty |-> 15, price |-> 20, total |-> 20]
    ELSE IF style = "DETAILED"
    THEN [item |-> 35, description |-> 25, qty |-> 10, price |-> 15, total |-> 15]
    ELSE [item |-> 40, qty |-> 15, price |-> 20, total |-> 25]

\* DefaultCharsPerLine dividing the full paper width, margins included
DefaultCharsPerLine_FullWidth(size, margins) ==
    IF is_thermal(size) THEN IntTrunc(2 * BillSize[size].width_mm, 5) ELSE 0

\* the "Calculate characters per line for thermal" branch:
\* int(printable_width / 2.5) on thermal sizes, 0 otherwise
DefaultCharsPerLine(size, margins) ==
    IF is_thermal(size)
    THEN LET printable_width == BillSize[size].width_mm - horizontal_total(margins)
         IN  IntTrunc(2 * printable_width, 5)
    ELSE 0

get_default_config(size, style) ==
    LET ref     == DefaultMarginsRef(size, style)
        margins == MarginsAt(DEFAULT_MARGINS, ref)
        base_fonts == FontSettings(10, 16, 12, 9, 8)
    IN  [ size               |-> size,
          style              |-> style,
          margins            |-> ref,
          fonts              |-> scale(base_fonts, FontScaleOf(size)),
          chars_per_line     |-> DefaultCharsPerLine(size, margins),
          max_qr_codes       |-> IF is_thermal(size) THEN 1
                                 ELSE IF size \in {"A3", "LETTER", "LEGAL"} THEN 3
                                 ELSE 2,
          qr_size_mm         |-> IF is_thermal(size) THEN 15
                                 ELSE IF size \in {"A3"} THEN 25 ELSE 20,
          logo_max_height_mm |-> IF is_thermal(size) THEN 15
                                 ELSE IF size \in {"A3"} THEN 30 ELSE 25,
          show_borders       |-> (style # "MINIMAL"),
          column_widths      |-> DefaultColumnWidths(size, style),
          wrap_item_names    |-> ~is_thermal(size),
          max_lines_per_item |-> IF is_thermal(size) THEN 1 ELSE 3,
          page_break_threshold |-> 85 ]

\* cls.MIN_MARGINS.get(category, cls.MIN_MARGINS["paper"])
MinMarginsOf(category) ==
    IF category \in DOMAIN MIN_MARGINS THEN MIN_MARGINS[category]
    ELSE MIN_MARGINS["paper"]

\* one entry of the errors list: f"<Side> margin too small (min: <min>mm)"
MarginError(side, min) == [side |-> side, text |-> "margin too small", min |-> min]

\* validate_margins reporting the first failing side only
validate_margins_FirstOnly(margins, category) ==
    LET min_margins == MinMarginsOf(category)
    IN  IF margins.top < min_margins.top
        THEN <<FALSE, <<MarginError("Top", min_margins.top)>>>>
        ELSE IF margins.right < min_margins.right
        THEN <<FALSE, <<MarginError("Right", min_margins.right)>>>>
        ELSE IF margins.bottom < min_margins.bottom
        THEN <<FALSE, <<MarginError("Bottom", min_margins.bottom)>>>>
        ELSE IF margins.left < min_margins.left
        THEN <<FALSE, <<MarginError("Left", min_margins.left)>>>>
        ELSE <<TRUE, <<>>>>

\* validate_margins: <<valid, message>>; the message is the list of its
\* "; "-separated entries, "" being the empty list
validate_margins(margins, category) ==
    LET min_margins == MinMarginsOf(category)
        e1 == IF margins.top < min_margins.top
              THEN <<MarginError("Top", min_margins.top)>> ELSE <<>>
        e2 == IF margins.right < min_margins.right
              THEN <<MarginError("Right", min_margins.right)>> ELSE <<>>
        e3 == IF margins.bottom < min_margins.bottom
              THEN <<MarginError("Bottom", min_margins.bottom)>> ELSE <<>>
        e4 == IF margins.left < min_margins.left
              THEN <<MarginError("Left", min_margins.left)>> ELSE <<>>
        errors == e1 \o e2 \o e3 \o e4
    IN  IF errors # <<>> THEN <<FALSE, errors>> ELSE <<TRUE, <<>>>>

get_all_sizes == BillSizeOrder

IsPaperSize(s) == ~is_thermal(s)

get_paper_sizes == SelectSeq(BillSizeOrder, IsPaperSize)

get_thermal_sizes == SelectSeq(BillSizeOrder, is_thermal)

\* min_diff is <<d>>, or <<>> for its initial value float('inf')
Infinity == <<>>

\* the diff computed in the loop body of find_closest_size, kept as its
\* square (diff >= 0, so diff < min_diff iff diff^2 < min_diff^2)
SizeDiffSq(size, width_mm, height_mm) ==
    IF is_continuous(size)
    THEN Abs(BillSize[size].width_mm - width_mm)
            * Abs(BillSize[size].width_mm - width_mm)
    ELSE (BillSize[size].width_mm - width_mm) * (BillSize[size].width_mm - width_mm)
            + (BillSize[size].height_mm - height_mm)
                * (BillSize[size].height_mm - height_mm)

\* diff <= min_diff: the last of several equally close sizes wins
DiffLess_OrEqual(diff, min_diff) == min_diff = Infinity \/ diff <= min_diff[1]

\* diff < min_diff
DiffLess(diff, min_diff) == min_diff = Infinity \/ diff < min_diff[1]

\* the for loop of find_closest_size from position i on
RECURSIVE ClosestLoop(_, _, _, _, _, _)
ClosestLoop(sizes, i, width_mm, height_mm, best_match, min_diff) ==
    IF i > Len(sizes) THEN best_match
    ELSE LET diff == SizeDiffSq(sizes[i], width_mm, height_mm)
         IN  IF DiffLess(diff, min_diff)
             THEN ClosestLoop(sizes, i + 1, width_mm, height_mm, sizes[i], <<diff>>)
             ELSE ClosestLoop(sizes, i + 1, width_mm, height_mm, best_match, min_diff)

find_closest_size(width_mm, height_mm, prefer_thermal) ==
    LET preferred == IF prefer_thermal THEN get_thermal_sizes ELSE get_paper_sizes
        sizes     == IF preferred = <<>> THEN get_all_sizes ELSE preferred
    IN  ClosestLoop(sizes, 1, width_mm, height_mm, None, Infinity)

---------------------------------------------------------------------------
(* str helpers: split(), " ".join(), " " * n                               *)

IsSpace(c) == c = " "

\* the positions where a maximal run of non-whitespace starts / ends
WordStarts(s) ==
    { i \in 1..Len(s) : ~IsSpace(s[i]) /\ (i = 1 \/ IsSpace(s[i - 1])) }

WordEnds(s) ==
    { i \in 1..Len(s) : ~IsSpace(s[i]) /\ (i = Len(s) \/ IsSpace(s[i + 1])) }

\* the k-th smallest element of a set of integers
Nth(S, k) == CHOOSE x \in S : Cardinality({ y \in S : y <= x }) = k

\* str.split() with no argument: the maximal runs of non-whitespace, in order
split(s) ==
    LET starts == WordStarts(s)
        ends   == WordEnds(s)
    IN  [ k \in 1..Cardinality(starts) |->
            SubSeq(s, Nth(starts, k), Nth(ends, k)) ]

\* " ".join(words)
RECURSIVE join(_)
join(words) ==
    IF words = <<>> THEN <<>>
    ELSE IF Len(words) = 1 THEN words[1]
    ELSE words[1] \o <<" ">> \o join(Tail(words))

\* char * n (the empty string for n <= 0)
Repeat(char, n) == [i \in 1..Max(n, 0) |-> char]

---------------------------------------------------------------------------
(* AutoLayoutEngine                                                        *)

\* WrapLoop dropping a word that does not fit the current line
RECURSIVE WrapLoop_DropsOverflow(_, _, _, _)
WrapLoop_DropsOverflow(words, i, lines, current_line) ==
    IF i > Len(words)
    THEN IF current_line # <<>> THEN Append(lines, join(current_line)) ELSE lines
    ELSE IF Len(join(Append(current_line, words[i]))) <= 40
         THEN WrapLoop_DropsOverflow(words, i + 1, lines,
                                     Append(current_line, words[i]))
         ELSE WrapLoop_DropsOverflow(words, i + 1,
                       IF current_line # <<>>
                       THEN Append(lines, join(current_line)) ELSE lines,
                       <<>>)

\* the for loop of calculate_item_layout from word i on, and the flush of
\* current_line after it
RECURSIVE WrapLoop(_, _, _, _)
WrapLoop(words, i, lines, current_line) ==
    IF i > Len(words)
    THEN IF current_line # <<>> THEN Append(lines, join(current_line)) ELSE lines
    ELSE IF Len(join(Append(current_line, words[i]))) <= 40
         THEN WrapLoop(words, i + 1, lines, Append(current_line, words[i]))
         ELSE WrapLoop(words, i + 1,
                       IF current_line # <<>>
                       THEN Append(lines, join(current_line)) ELSE lines,
                       <<words[i]>>)

\* LimitLines keeping one line too many
LimitLines_OffByOne(lines, max_lines) ==
    IF Len(lines) > max_lines
    THEN LET cut == PySlice(lines, 0, max_lines + 1)
         IN  <<[cut EXCEPT ![Len(cut)] = PyPrefix(cut[Len(cut)], -3) \o Ellipsis],
               TRUE>>
    ELSE <<lines, FALSE>>

\* LimitLines appending the ellipsis to the last kept line
LimitLines_Appends(lines, max_lines) ==
    IF Len(lines) > max_lines
    THEN LET cut == PySlice(lines, 0, max_lines)
         IN  <<[cut EXCEPT ![Len(cut)] = cut[Len(cut)] \o Ellipsis], TRUE>>
    ELSE <<lines, FALSE>>

\* the "Limit lines" step: <<lines, truncated>>
LimitLines(lines, max_lines) ==
    IF Len(lines) > max_lines
    THEN LET cut == PySlice(lines, 0, max_lines)
         IN  <<[cut EXCEPT ![Len(cut)] = PyPrefix(cut[Len(cut)], -3) \o Ellipsis],
               TRUE>>
    ELSE <<lines, FALSE>>

\* ThermalItemLayout truncating from len(name) >= the budget on
ThermalItemLayout_AtBudget(cfg, item_name) ==
    IF Len(item_name) * 100 >= cfg.chars_per_line * 45
    THEN LET max_chars == IntTrunc(cfg.chars_per_line * 45 - 300, 100)
             display   == PyPrefix(item_name, max_chars) \o Ellipsis
         IN  [display_name |-> display, lines |-> <<display>>, truncated |-> TRUE]
    ELSE [display_name |-> item_name, lines |-> <<item_name>>,
          truncated |-> FALSE]

\* ThermalItemLayout keeping the whole budget of characters before the
\* ellipsis
ThermalItemLayout_NoEllipsisRoom(cfg, item_name) ==
    IF Len(item_name) * 100 > cfg.chars_per_line * 45
    THEN LET max_chars == IntTrunc(cfg.chars_per_line * 45, 100)
             display   == PyPrefix(item_name, max_chars) \o Ellipsis
         IN  [display_name |-> display, lines |-> <<display>>, truncated |-> TRUE]
    ELSE [display_name |-> item_name, lines |-> <<item_name>>,
          truncated |-> FALSE]

\* the thermal branch of calculate_item_layout
ThermalItemLayout(cfg, item_name) ==
    IF Len(item_name) * 100 > cfg.chars_per_line * 45
    THEN LET max_chars == IntTrunc(cfg.chars_per_line * 45 - 300, 100)
             display   == PyPrefix(item_name, max_chars) \o Ellipsis
         IN  [display_name |-> display, lines |-> <<display>>, truncated |-> TRUE]
    ELSE [display_name |-> item_name, lines |-> <<item_name>>,
          truncated |-> FALSE]

\* the paper branch of calculate_item_layout
PaperItemLayout(cfg, item_name) ==
    IF cfg.wrap_item_names
    THEN LET limited == LimitLines(WrapLoop(split(item_name), 1, <<>>, <<>>),
                                   cfg.max_lines_per_item)
         IN  [display_name |-> item_name, lines |-> limited[1],
              truncated |-> limited[2]]
    ELSE [display_name |-> item_name, lines |-> <<item_name>>,
          truncated |-> FALSE]

calculate_item_layout(cfg, item_name) ==
    IF is_thermal(cfg.size) THEN ThermalItemLayout(cfg, item_name)
    ELSE PaperItemLayout(cfg, item_name)

\* calculate_qr_layout choosing the paper arrangement by the requested
\* number of codes
calculate_qr_layout_ByRequested(cfg, num_qr_codes) ==
    LET actual_count == Min(num_qr_codes, cfg.max_qr_codes)
    IN  IF is_thermal(cfg.size)
        THEN [ count |-> actual_count, arrangement |-> "vertical",
               size_mm |-> 10 * cfg.qr_size_mm, spacing_mm |-> 2 ]
        ELSE IF num_qr_codes <= 2
        THEN [ count |-> actual_count, arrangement |-> "horizontal",
               size_mm |-> 10 * cfg.qr_size_mm, spacing_mm |-> 5 ]
        ELSE [ count |-> actual_count, arrangement |-> "grid",
               rows |-> 2, cols |-> 2,
               size_mm |-> 8 * cfg.qr_size_mm, spacing_mm |-> 5 ]

\* size_mm is given in tenths of a mm, so that qr_size_mm * 0.8 is
\* 8 * qr_size_mm
calculate_qr_layout(cfg, num_qr_codes) ==
    LET max_qr       == cfg.max_qr_codes
        actual_count == Min(num_qr_codes, max_qr)
    IN  IF is_thermal(cfg.size)
        THEN [ count |-> actual_count, arrangement |-> "vertical",
               size_mm |-> 10 * cfg.qr_size_mm, spacing_mm |-> 2 ]
        ELSE IF actual_count <= 2
        THEN [ count |-> actual_count, arrangement |-> "horizontal",
               size_mm |-> 10 * cfg.qr_size_mm, spacing_mm |-> 5 ]
        ELSE [ count |-> actual_count, arrangement |-> "grid",
               rows |-> 2, cols |-> 2,
               size_mm |-> 8 * cfg.qr_size_mm, spacing_mm |-> 5 ]

\* estimate_content_height counting the item rows without the header row
estimate_content_height_NoHeaderRow(cfg, num_items, has_qr, has_logo) ==
    (IF has_logo THEN cfg.logo_max_height_mm + 5 ELSE 0)
    + 30
    + 20
    + num_items * (IF is_thermal(cfg.size) THEN 5 ELSE 7)
    + 20
    + (IF has_qr THEN cfg.qr_size_mm + 10 ELSE 0)
    + 15

\* the height in whole mm
estimate_content_height(cfg, num_items, has_qr, has_logo) ==
    (IF has_logo THEN cfg.logo_max_height_mm + 5 ELSE 0)
    + 30
    + 20
    + (num_items + 1) * (IF is_thermal(cfg.size) THEN 5 ELSE 7)
    + 20
    + (IF has_qr THEN cfg.qr_size_mm + 10 ELSE 0)
    + 15

\* needs_pagination breaking the page already at the threshold
needs_pagination_AtThreshold(cfg, content_height) ==
    IF is_continuous(cfg.size) THEN FALSE
    ELSE content_height >= printable_height_mm(cfg) * cfg.page_break_threshold

\* content_height is given in hundredths of a mm, so that
\* available_height * page_break_threshold is the integer on the right
needs_pagination(cfg, content_height) ==
    IF is_continuous(cfg.size) THEN FALSE
    ELSE content_height > printable_height_mm(cfg) * cfg.page_break_threshold

\* what a Python exception propagating out of the call leaves as the result
Raised(exc) == [raised |-> exc]

\* SplitPages over range(0, len(items) - items_per_page + 1, items_per_page):
\* only full pages
RECURSIVE SplitPages_FullOnly(_, _, _)
SplitPages_FullOnly(items, i, items_per_page) ==
    IF i + items_per_page > Len(items) THEN <<>>
    ELSE <<PySlice(items, i, i + items_per_page)>>
            \o SplitPages_FullOnly(items, i + items_per_page, items_per_page)

\* SplitPages slicing items[i:i + items_per_page + 1]: pages overlap by one
RECURSIVE SplitPages_Overlap(_, _, _)
SplitPages_Overlap(items, i, items_per_page) ==
    IF i >= Len(items) THEN <<>>
    ELSE <<PySlice(items, i, i + items_per_page + 1)>>
            \o SplitPages_Overlap(items, i + items_per_page, items_per_page)

\* the for loop over range(0, len(items), items_per_page) from i on
RECURSIVE SplitPages(_, _, _)
SplitPages(items, i, items_per_page) ==
    IF i >= Len(items) THEN <<>>
    ELSE <<PySlice(items, i, i + items_per_page)>>
            \o SplitPages(items, i + items_per_page, items_per_page)

\* ItemsPerPage deriving the size from the whole printable height
ItemsPerPage_FullHeight(cfg, items_per_page) ==
    IF items_per_page = None \/ items_per_page = Some(0)
    THEN IntTrunc(printable_height_mm(cfg),
                  IF is_thermal(cfg.size) THEN 5 ELSE 7)
    ELSE items_per_page[1]

\* the "Calculate items per page" step: the given size, or the one derived
\* from the printable height when items_per_page is None or 0
ItemsPerPage(cfg, items_per_page) ==
    IF items_per_page = None \/ items_per_page = Some(0)
    THEN IntTrunc(printable_height_mm(cfg) * 6,
                  10 * (IF is_thermal(cfg.size) THEN 5 ELSE 7))
    ELSE items_per_page[1]

\* the "Split items into pages" step; range() raises ValueError for a zero
\* step and is empty for a negative one
PagesOf(items, per_page) ==
    IF per_page = 0 THEN Raised("ValueError")
    ELSE IF per_page < 0 THEN <<>>
    ELSE SplitPages(items, 0, per_page)

\* calculate_page_breaks returning early only when no items_per_page is given
calculate_page_breaks_SplitIfGiven(cfg, items, items_per_page) ==
    IF /\ items_per_page = None
       /\ ~needs_pagination(cfg,
              100 * estimate_content_height(cfg, Len(items), FALSE, FALSE))
    THEN <<items>>
    ELSE PagesOf(items, ItemsPerPage(cfg, items_per_page))

\* items_per_page is None (<<>>) or an int (<<k>>)
calculate_page_breaks(cfg, items, items_per_page) ==
    IF ~needs_pagination(cfg,
            100 * estimate_content_height(cfg, Len(items), FALSE, FALSE))
    THEN <<items>>
    ELSE PagesOf(items, ItemsPerPage(cfg, items_per_page))

---------------------------------------------------------------------------
(* ThermalOptimizer                                                        *)

\* optimize_for_thermal appending the ellipsis to the first width_chars
\* characters
optimize_for_thermal_AppendEllipsis(text, width_chars) ==
    IF Len(text) <= width_chars THEN text
    ELSE IF width_chars > 3 THEN PyPrefix(text, width_chars) \o Ellipsis
    ELSE PyPrefix(text, width_chars)

optimize_for_thermal(text, width_chars) ==
    IF Len(text) <= width_chars THEN text
    ELSE IF width_chars > 3 THEN PyPrefix(text, width_chars - 3) \o Ellipsis
    ELSE PyPrefix(text, width_chars)

\* format_thermal_line without the forced separator: " " * max(padding, 0)
format_thermal_line_NoForcedSpace(left, right, width) ==
    LET padding == width - Len(left) - Len(right)
    IN  IF padding < 0
        THEN LET available   == width - 3
                 left_chars  == IntTrunc(available * 6, 10)
                 right_chars == available - left_chars
                 l == optimize_for_thermal(left, left_chars)
                 r == optimize_for_thermal(right, right_chars)
             IN  l \o Repeat(" ", Max(width - Len(l) - Len(r), 0)) \o r
        ELSE left \o Repeat(" ", Max(padding, 0)) \o right

format_thermal_line(left, right, width) ==
    LET padding == width - Len(left) - Len(right)
    IN  IF padding < 0
        THEN LET available   == width - 3
                 left_chars  == IntTrunc(available * 6, 10)
                 right_chars == available - left_chars
                 l == optimize_for_thermal(left, left_chars)
                 r == optimize_for_thermal(right, right_chars)
             IN  l \o Repeat(" ", Max(width - Len(l) - Len(r), 1)) \o r
        ELSE left \o Repeat(" ", Max(padding, 1)) \o right

create_thermal_separator(width, char) == Repeat(char, width)

\* center_text padding both sides of the text
center_text_BothSides(text, width) ==
    IF Len(text) >= width THEN optimize_for_thermal(text, width)
    ELSE LET padding == Repeat(" ", (width - Len(text)) \div 2)
         IN  padding \o text \o padding

center_text(text, width) ==
    IF Len(text) >= width THEN optimize_for_thermal(text, width)
    ELSE Repeat(" ", (width - Len(text)) \div 2) \o text

---------------------------------------------------------------------------
(* The requests explored: bounds and input families                        *)

\* thermal formatter: texts of up to MaxText characters, widths up to MaxWidth
MaxText == 6

MaxWidth == 10

\* item names: up to MaxWords words, and prefixes of up to MaxShort characters
MaxWords == 4

MaxShort == 16

\* item lists of up to MaxItems items; explicit items_per_page up to MaxPerPage
MaxItems == 40

MaxPerPage == 3

\* margins of up to MaxMargin mm a side
MaxMargin == 6

\* requested dimensions up to MaxOffset mm away from a registered size
MaxOffset == 5

\* content heights up to MaxDelta hundredths of a mm around the threshold
MaxDelta == 2

Letters == << "a", "b", "c", "d", "e", "f", "g", "h", "i", "j", "k", "l", "m" >>

Digits == << "$", "1", "2", "3", "4", "5", "6", "7", "8", "9", "0" >>

\* the text of n characters that cycles through alphabet
TextOf(alphabet, n) == [i \in 1..n |-> alphabet[((i - 1) % Len(alphabet)) + 1]]

LeftInputs == { TextOf(Letters, n) : n \in 0..MaxText }

RightInputs == { TextOf(Digits, n) : n \in 0..MaxText }

WidthInputs == 1..MaxWidth

\* widths handed to optimize_for_thermal and center_text: format_thermal_line
\* passes optimize_for_thermal a negative width when its own width is below 3
MaxNegWidth == 2

TruncationWidthInputs == (-MaxNegWidth)..MaxWidth

TextInputs == LeftInputs \cup RightInputs

\* word lengths: short words, a word of half the 40-character budget and
\* a word longer than the budget
WordLens == {2, 20, 41}

\* the name whose i-th word is lens[i] copies of the i-th letter; pad = 0
\* separates the words by one space, pad = 1 by two spaces and adds a
\* leading and a trailing space
RECURSIVE NameOfWords(_, _, _)
NameOfWords(lens, i, pad) ==
    IF i > Len(lens) THEN Repeat(" ", pad)
    ELSE (IF i = 1 THEN Repeat(" ", pad) ELSE Repeat(" ", 1 + pad))
            \o Repeat(Letters[i], lens[i]) \o NameOfWords(lens, i + 1, pad)

WordNames ==
    { NameOfWords(lens, 1, pad) :
        lens \in UNION { [1..n -> WordLens] : n \in 0..MaxWords }, pad \in {0, 1} }

SampleName ==
    << "E", "x", "t", "r", "a", " ", "L", "a", "r", "g", "e", " ", "C",
    "a", "p", "p", "u", "c", "c", "i", "n", "o", " ", "w", "i", "t", "h",
    " ", "D", "o", "u", "b", "l", "e", " ", "S", "h", "o", "t" >>

ShortNames == { SubSeq(SampleName, 1, n) : n \in 0..MaxShort }

NameInputs == WordNames \cup ShortNames

\* the (size, style) pairs of the paper configs a caller builds with
\* wrap_item_names switched off
NoWrapConfigs == { <<"A5", "CLASSIC">>, <<"LETTER", "MINIMAL">> }

\* the list of the items numbered 1..n
ItemsOf(n) == [i \in 1..n |-> i]

ItemsInputs == { ItemsOf(n) : n \in 0..MaxItems }

PerPageInputs == {None} \cup { Some(k) : k \in (0..MaxPerPage) \cup {20, 50} }

\* up to MaxQr requested QR codes; up to MaxRows item rows
MaxQr == 4

MaxRows == 4

QrInputs == 0..MaxQr

RowsInputs == 0..MaxRows

MarginInputs ==
    { Margins(t, r, b, l) : t \in 0..MaxMargin, r \in 0..MaxMargin,
                            b \in 0..MaxMargin, l \in 0..MaxMargin }

CategoryInputs == { "paper", "thermal" }

HeightInputs(cfg) ==
    {0, 100000}
    \cup { printable_height_mm(cfg) * cfg.page_break_threshold + d :
            d \in (-MaxDelta)..MaxDelta }

\* the receivers of FontSettings.scale: the base fonts of get_default_config
\* and the fonts of a THERMAL_58 config
FontInputs == { FontSettings(10, 16, 12, 9, 8), FontSettings(7, 11, 8, 6, 5) }

\* the factors of FontSettings.scale, in hundredths: those of FONT_SCALES,
\* a half, zero and a negative one
ScaleFactors ==
    { FONT_SCALES[size] : size \in DOMAIN FONT_SCALES } \cup {-50, 0, 50}

NoConfig == [size |-> "none"]

---------------------------------------------------------------------------
(* The state machine                                                       *)

Init ==
    /\ DEFAULT_MARGINS = InitialDefaultMargins
    /\ config = NoConfig
    /\ op = "idle"
    /\ args = <<>>
    /\ ret = <<>>
    /\ held = None
    /\ calls = <<>>
    /\ files = {}

\* get_default_config resetting the margins entry it handed out to the
\* category minimum once the config is built
GetDefaultConfig_TrimsEntry ==
    /\ op = "idle"
    /\ \E size \in Sizes, style \in LayoutStyle :
          /\ args' = <<size, style>>
          /\ ret' = get_default_config(size, style)
          /\ DEFAULT_MARGINS' =
                [DEFAULT_MARGINS EXCEPT ![ret'.margins[1]][ret'.margins[2]] =
                    MinMarginsOf(ret'.margins[1])]
    /\ op' = "get_default_config"
    /\ config' = NoConfig
    /\ UNCHANGED <<held, calls, files>>

\* registry.get_default_config(size, style)
GetDefaultConfig ==
    /\ op = "idle"
    /\ \E size \in Sizes, style \in LayoutStyle :
          /\ args' = <<size, style>>
          /\ ret' = get_default_config(size, style)
    /\ op' = "get_default_config"
    /\ config' = NoConfig
    /\ UNCHANGED <<DEFAULT_MARGINS, held, calls, files>>

\* registry.validate_margins(margins, category)
ValidateMargins ==
    /\ op = "idle"
    /\ \E margins \in MarginInputs, category \in CategoryInputs :
          /\ args' = <<margins, category>>
          /\ ret' = validate_margins(margins, category)
    /\ op' = "validate_margins"
    /\ config' = NoConfig
    /\ UNCHANGED <<DEFAULT_MARGINS, held, calls, files>>

\* registry.get_all_sizes()
GetAllSizes ==
    /\ op = "idle"
    /\ op' = "get_all_sizes"
    /\ args' = <<>>
    /\ ret' = get_all_sizes
    /\ config' = NoConfig
    /\ UNCHANGED <<DEFAULT_MARGINS, held, calls, files>>

\* registry.get_paper_sizes()
GetPaperSizes ==
    /\ op = "idle"
    /\ op' = "get_paper_sizes"
    /\ args' = <<>>
    /\ ret' = get_paper_sizes
    /\ config' = NoConfig
    /\ UNCHANGED <<DEFAULT_MARGINS, held, calls, files>>

\* registry.get_thermal_sizes()
GetThermalSizes ==
    /\ op = "idle"
    /\ op' = "get_thermal_sizes"
    /\ args' = <<>>
    /\ ret' = get_thermal_sizes
    /\ config' = NoConfig
    /\ UNCHANGED <<DEFAULT_MARGINS, held, calls, files>>

\* fonts.scale(factor): a new FontSettings is returned, the receiver
\* (args[1]) is what it was
Scale ==
    /\ op = "idle"
    /\ \E f \in FontInputs, factor \in ScaleFactors :
          /\ op' = "scale"
          /\ args' = <<f, factor>>
          /\ ret' = scale(f, factor)
    /\ config' = NoConfig
    /\ UNCHANGED <<DEFAULT_MARGINS, held, calls, files>>

\* registry.find_closest_size(width_mm, height_mm, prefer_thermal), asked
\* for dimensions around those of a registered size
FindClosestSize ==
    /\ op = "idle"
    /\ \E size \in Sizes, dw \in (-MaxOffset)..MaxOffset,
          dh \in (-MaxOffset)..MaxOffset, prefer_thermal \in BOOLEAN :
          LET width_mm  == BillSize[size].width_mm + dw
              height_mm == BillSize[size].height_mm + dh
          IN  /\ args' = <<width_mm, height_mm, prefer_thermal>>
              /\ ret' = find_closest_size(width_mm, height_mm, prefer_thermal)
    /\ op' = "find_closest_size"
    /\ config' = NoConfig
    /\ UNCHANGED <<DEFAULT_MARGINS, held, calls, files>>

\* AutoLayoutEngine(registry.get_default_config(size, style))
\*     .calculate_item_layout(item_name)
CalculateItemLayout ==
    /\ op = "idle"
    /\ \E size \in Sizes, style \in LayoutStyle, item_name \in NameInputs :
          /\ config' = get_default_config(size, style)
          /\ args' = <<item_name>>
          /\ ret' = calculate_item_layout(config', item_name)
    /\ op' = "calculate_item_layout"
    /\ UNCHANGED <<DEFAULT_MARGINS, held, calls, files>>

\* AutoLayoutEngine(cfg).calculate_item_layout(item_name), cfg a LayoutConfig
\* built with the fields of a paper default config and wrap_item_names=False
CalculateItemLayoutNoWrap ==
    /\ op = "idle"
    /\ \E pair \in NoWrapConfigs, item_name \in NameInputs :
          /\ config' = [get_default_config(pair[1], pair[2])
                            EXCEPT !.wrap_item_names = FALSE]
          /\ args' = <<item_name>>
          /\ ret' = calculate_item_layout(config', item_name)
    /\ op' = "calculate_item_layout"
    /\ UNCHANGED <<DEFAULT_MARGINS, held, calls, files>>

\* AutoLayoutEngine(registry.get_default_config(size, style))
\*     .needs_pagination(content_height_mm), the height in hundredths of a mm
NeedsPagination ==
    /\ op = "idle"
    /\ \E size \in Sizes, style \in LayoutStyle :
          /\ config' = get_default_config(size, style)
          /\ \E content_height \in HeightInputs(config') :
                /\ args' = <<content_height>>
                /\ ret' = needs_pagination(config', content_height)
    /\ op' = "needs_pagination"
    /\ UNCHANGED <<DEFAULT_MARGINS, held, calls, files>>

\* AutoLayoutEngine(registry.get_default_config(size, style))
\*     .calculate_page_breaks(items, items_per_page)
CalculatePageBreaks ==
    /\ op = "idle"
    /\ \E size \in Sizes, style \in LayoutStyle, items \in ItemsInputs,
          items_per_page \in PerPageInputs :
          /\ config' = get_default_config(size, style)
          /\ args' = <<items, items_per_page>>
          /\ ret' = calculate_page_breaks(config', items, items_per_page)
    /\ op' = "calculate_page_breaks"
    /\ UNCHANGED <<DEFAULT_MARGINS, held, calls, files>>

\* AutoLayoutEngine(registry.get_default_config(size, style))
\*     .calculate_qr_layout(num_qr_codes)
CalculateQrLayout ==
    /\ op = "idle"
    /\ \E size \in Sizes, style \in LayoutStyle, num_qr_codes \in QrInputs :
          /\ config' = get_default_config(size, style)
          /\ args' = <<num_qr_codes>>
          /\ ret' = calculate_qr_layout(config', num_qr_codes)
    /\ op' = "calculate_qr_layout"
    /\ UNCHANGED <<DEFAULT_MARGINS, held, calls, files>>

\* AutoLayoutEngine(registry.get_default_config(size, style))
\*     .estimate_content_height(num_items, has_qr, has_logo)
EstimateContentHeight ==
    /\ op = "idle"
    /\ \E size \in Sizes, style \in LayoutStyle, num_items \in RowsInputs,
          has_qr \in BOOLEAN, has_logo \in BOOLEAN :
          /\ config' = get_default_config(size, style)
          /\ args' = <<num_items, has_qr, has_logo>>
          /\ ret' = estimate_content_height(config', num_items, has_qr, has_logo)
    /\ op' = "estimate_content_height"
    /\ UNCHANGED <<DEFAULT_MARGINS, held, calls, files>>

\* ThermalOptimizer.format_thermal_line(left, right, width)
FormatThermalLine ==
    /\ op = "idle"
    /\ \E left \in LeftInputs, right \in RightInputs, width \in WidthInputs :
          /\ args' = <<left, right, width>>
          /\ ret' = format_thermal_line(left, right, width)
    /\ op' = "format_thermal_line"
    /\ config' = NoConfig
    /\ UNCHANGED <<DEFAULT_MARGINS, held, calls, files>>

\* ThermalOptimizer.optimize_for_thermal(text, width_chars)
OptimizeForThermal ==
    /\ op = "idle"
    /\ \E text \in TextInputs, width_chars \in TruncationWidthInputs :
          /\ args' = <<text, width_chars>>
          /\ ret' = optimize_for_thermal(text, width_chars)
    /\ op' = "optimize_for_thermal"
    /\ config' = NoConfig
    /\ UNCHANGED <<DEFAULT_MARGINS, held, calls, files>>

\* ThermalOptimizer.center_text(text, width)
CenterText ==
    /\ op = "idle"
    /\ \E text \in TextInputs, width \in TruncationWidthInputs :
          /\ args' = <<text, width>>
          /\ ret' = center_text(text, width)
    /\ op' = "center_text"
    /\ config' = NoConfig
    /\ UNCHANGED <<DEFAULT_MARGINS, held, calls, files>>

\* the caller is done with the result; the request's engine is dropped
Return ==
    /\ op # "idle"
    /\ op' = "idle"
    /\ args' = <<>>
    /\ ret' = <<>>
    /\ config' = NoConfig
    /\ calls' = <<>>
    /\ UNCHANGED <<DEFAULT_MARGINS, held, files>>

Next ==
    \/ GetDefaultConfig
    \/ ValidateMargins
    \/ GetAllSizes
    \/ GetPaperSizes
    \/ GetThermalSizes
    \/ Scale
    \/ FindClosestSize
    \/ CalculateItemLayout
    \/ CalculateItemLayoutNoWrap
    \/ NeedsPagination
    \/ CalculatePageBreaks
    \/ CalculateQrLayout
    \/ EstimateContentHeight
    \/ FormatThermalLine
    \/ OptimizeForThermal
    \/ CenterText
    \/ Return

Spec == Init /\ [][Next]_vars

---------------------------------------------------------------------------
(* A client that keeps what it was given and writes to its fields          *)

\* a LayoutConfig field for field, as the dataclass compares it: the
\* margins attribute by the value of the Margins object it refers to
Observed(cfg) ==
    [cfg EXCEPT !.margins = MarginsAt(DEFAULT_MARGINS, cfg.margins)]

\* a returned value as its holder reads it
Seen(operation, value) ==
    IF operation = "get_default_config" THEN Observed(value) ELSE value

\* the configs whose results a caller keeps: that of test_item_layout_paper,
\* and the size of test_item_layout_thermal in the same style
KeptConfigs == { <<"A4", "CLASSIC">>, <<"THERMAL_80", "CLASSIC">> }

\* the calls whose result a caller keeps
IsKeptCall ==
    \/ /\ op = "get_default_config"
       /\ <<args[1], args[2]>> \in KeptConfigs
    \/ /\ op = "calculate_item_layout"
       /\ <<config.size, config.style>> \in KeptConfigs
       /\ args[1] = SubSeq(SampleName, 1, MaxShort)
    \/ /\ op = "calculate_page_breaks"
       /\ <<config.size, config.style>> \in KeptConfigs
       /\ args = <<ItemsOf(MaxItems), None>>

\* the caller keeps the call and the value it returned, as it reads now,
\* and goes on
Keep ==
    /\ IsKeptCall
    /\ held = None
    /\ held' = Some([ op |-> op, args |-> args, config |-> config,
                      ret |-> ret, seen |-> Seen(op, ret) ])
    /\ op' = "idle"
    /\ args' = <<>>
    /\ ret' = <<>>
    /\ config' = NoConfig
    /\ UNCHANGED <<DEFAULT_MARGINS, calls, files>>

\* at most MaxWrites fields of the margins objects are written
MaxWrites == 1

WriteSides == {"top", "left"}

WriteValues == {0}

\* the fields of the DEFAULT_MARGINS entries that no longer hold their
\* initial value
WrittenMarginFields ==
    { f \in { <<category, class, side>> :
                category \in {"paper"}, class \in DOMAIN DEFAULT_MARGINS.paper,
                side \in WriteSides }
             \cup { <<category, class, side>> :
                category \in {"thermal"}, class \in DOMAIN DEFAULT_MARGINS.thermal,
                side \in WriteSides } :
        DEFAULT_MARGINS[f[1]][f[2]][f[3]] # InitialDefaultMargins[f[1]][f[2]][f[3]] }

\* cfg.margins.<side> = value, cfg being the config just returned: the
\* Margins object written is the DEFAULT_MARGINS entry itself
WriteMargins ==
    /\ op = "get_default_config"
    /\ Cardinality(WrittenMarginFields) < MaxWrites
    /\ \E side \in WriteSides, value \in WriteValues :
          DEFAULT_MARGINS' =
              [DEFAULT_MARGINS EXCEPT ![ret.margins[1]][ret.margins[2]][side] = value]
    /\ UNCHANGED <<config, op, args, ret, held, calls, files>>

\* cfg.fonts.base_size = value: the FontSettings object is the config's own
WriteFonts ==
    /\ op = "get_default_config"
    /\ \E value \in WriteValues :
          ret' = [ret EXCEPT !.fonts.base_size = value]
    /\ UNCHANGED <<DEFAULT_MARGINS, config, op, args, held, calls, files>>

\* cfg.column_widths["item"] = value: the dict is the config's own
WriteColumnWidths ==
    /\ op = "get_default_config"
    /\ \E value \in WriteValues :
          ret' = [ret EXCEPT !.column_widths.item = value]
    /\ UNCHANGED <<DEFAULT_MARGINS, config, op, args, held, calls, files>>

NextWrites ==
    \/ GetDefaultConfig
    \/ Keep
    \/ WriteMargins
    \/ WriteFonts
    \/ WriteColumnWidths
    \/ Return

SpecWrites == Init /\ [][NextWrites]_vars

---------------------------------------------------------------------------
(* A client that keeps a result and makes the same call again later        *)

NextReplay ==
    \/ Next
    \/ Keep

SpecReplay == Init /\ [][NextReplay]_vars

---------------------------------------------------------------------------
(* EnhancedInvoiceGenerator (src/invoice_generator_enhanced.py)            *)

\* the ids of the rows of the orders table: the order of setUpClass.  Every
\* order row has its users row (user_id is NOT NULL with an enforced
\* foreign key), so the JOIN of _fetch_order_data finds every order
Orders == {999}

\* _fetch_order_data answering for any id
fetch_order_data_AnyOrder(order_id) == Some([order |-> order_id])

\* _fetch_order_data: None when the orders table has no such row
fetch_order_data(order_id) ==
    IF order_id \in Orders THEN Some([order |-> order_id]) ELSE None

\* _check_printer_compatibility: <<compatible, fallback_size>>
check_printer_compatibility(printer_name, bill_size) == <<TRUE, None>>

\* _generate_output_path: the file invoice_<id>_<size><_preview>_<time>.pdf
\* in the invoices folder
generate_output_path(order_id, bill_size, preview, timestamp) ==
    [ folder |-> "invoices",
      name   |-> <<"invoice", order_id, bill_size,
                   IF preview THEN "_preview" ELSE "", timestamp>> ]

\* generate_invoice at clock reading now: what it returns or raises, the
\* methods it runs, the config it resolves and the files its renderer
\* writes
generate_invoice(order_id, bill_size, layout_style, output_path, preview_only, printer_name, now) ==
    LET order_data == fetch_order_data(order_id)
    IN  IF order_data = None
        THEN [ ret     |-> Raised("ValueError"),
               calls   |-> <<"_fetch_order_data">>,
               config  |-> NoConfig,
               created |-> {} ]
        ELSE LET checked   == printer_name # None /\ ~preview_only
                 compat    == check_printer_compatibility(printer_name, bill_size)
                 fell_back == checked /\ ~compat[1] /\ compat[2] # None
                 size      == IF fell_back THEN compat[2][1] ELSE bill_size
                 generated == output_path = None
                 path      == IF generated
                              THEN generate_output_path(order_id, size,
                                                        preview_only, now)
                              ELSE output_path[1]
                 renderer  == IF is_thermal(size)
                              THEN "_generate_thermal_invoice"
                              ELSE "_generate_paper_invoice"
             IN  [ ret     |-> path,
                   calls   |-> <<"_fetch_order_data", "get_default_config">>
                               \o (IF checked
                                   THEN <<"_check_printer_compatibility">>
                                   ELSE <<>>)
                               \o (IF fell_back
                                   THEN <<"get_default_config">> ELSE <<>>)
                               \o (IF generated
                                   THEN <<"_generate_output_path">> ELSE <<>>)
                               \o <<renderer>>,
                   config  |-> get_default_config(size, layout_style),
                   created |-> {path} ]

\* the file system keeps up to MaxFiles output files; the clock reads up to
\* MaxClock
MaxFiles == 1

MaxClock == 2

\* an existing order (test_generate_paper_invoice) and a missing one
\* (test_invalid_order_handling)
OrderIdInputs == {999, 99999}

OutputPathInputs ==
    {None, Some([folder |-> "temp_dir", name |-> <<"test.pdf">>])}

PrinterInputs == {None, Some("printer")}

\* generator.generate_invoice(order_id, bill_size, layout_style, output_path,
\*                            preview_only, printer_name)
GenerateInvoice ==
    /\ op = "idle"
    /\ Cardinality(files) < MaxFiles
    /\ \E order_id \in OrderIdInputs, bill_size \in Sizes,
          layout_style \in LayoutStyle, output_path \in OutputPathInputs,
          preview_only \in BOOLEAN, printer_name \in PrinterInputs,
          now \in 1..MaxClock :
          LET done == generate_invoice(order_id, bill_size, layout_style,
                                       output_path, preview_only,
                                       printer_name, now)
          IN  /\ args' = <<order_id, bill_size, layout_style, output_path,
                           preview_only, printer_name>>
              /\ ret' = done.ret
              /\ calls' = done.calls
              /\ config' = done.config
              /\ files' = files \cup done.created
    /\ op' = "generate_invoice"
    /\ UNCHANGED <<DEFAULT_MARGINS, held>>

\* an output file is removed (tearDown)
RemoveFile ==
    /\ op = "idle"
    /\ \E file \in files : files' = files \ {file}
    /\ UNCHANGED <<DEFAULT_MARGINS, config, op, args, ret, held, calls>>

NextGenerator ==
    \/ GenerateInvoice
    \/ RemoveFile
    \/ Return

SpecGenerator == Init /\ [][NextGenerator]_vars

---------------------------------------------------------------------------
(* Properties                                                              *)

\* the concatenation of a sequence of sequences
RECURSIVE Flatten(_)
Flatten(seqs) == IF seqs = <<>> THEN <<>> ELSE Head(seqs) \o Flatten(Tail(seqs))

EndsWith(s, suffix) ==
    Len(s) >= Len(suffix) /\ SubSeq(s, Len(s) - Len(suffix) + 1, Len(s)) = suffix

\* ceil(n / k) for k >= 1
CeilDiv(n, k) == (n + k - 1) \div k

\* the estimated height of the request's whole item list needs pagination
ListNeedsPagination ==
    needs_pagination(config,
        100 * estimate_content_height(config, Len(args[1]), FALSE, FALSE))

\* C1: format_thermal_line(left, right, width) returns a string of exactly
\* width characters, for every left, right and positive width.
C1_LineHasExactWidth ==
    op = "format_thermal_line" => Len(ret) = args[3]

\* pages are ceil(n / k) batches, all but the last of k items, the last
\* holding the remainder
IsSplitIntoBatchesOf(pages, n, k) ==
    /\ Len(pages) = CeilDiv(n, k)
    /\ \A i \in 1..(Len(pages) - 1) : Len(pages[i]) = k
    /\ Len(pages[Len(pages)]) = n - k * (Len(pages) - 1)

\* C2 as stated: on any default config, for N >= 1 items and an explicit
\* items_per_page = k >= 1, calculate_page_breaks returns ceil(N/k) batches,
\* all but the last of k items, the last holding the remainder.
C2_BatchesOnAnyList ==
    (/\ op = "calculate_page_breaks"
     /\ Len(args[1]) >= 1
     /\ args[2] # None
     /\ args[2][1] >= 1)
    => IsSplitIntoBatchesOf(ret, Len(args[1]), args[2][1])

\* C2 amended: the same, for the item lists whose estimated height needs
\* pagination (a list that fits one page comes back as a single batch).
C2_BatchesWhenPaginated ==
    (/\ op = "calculate_page_breaks"
     /\ Len(args[1]) >= 1
     /\ args[2] # None
     /\ args[2][1] >= 1
     /\ ListNeedsPagination)
    => IsSplitIntoBatchesOf(ret, Len(args[1]), args[2][1])

\* a paginated list split with an explicit page size that leaves a shorter
\* last batch
C2_Witness ==
    /\ op = "calculate_page_breaks"
    /\ args[2] # None
    /\ args[2][1] >= 2
    /\ ListNeedsPagination
    /\ Len(ret) >= 2
    /\ Len(ret[Len(ret)]) < args[2][1]

\* C3: with items_per_page omitted or positive, the batches concatenated in
\* order are exactly the input sequence: nothing dropped, duplicated or
\* reordered.
C3_BatchesConcatenateToInput ==
    (/\ op = "calculate_page_breaks"
     /\ (args[2] = None \/ args[2][1] >= 1))
    => Flatten(ret) = args[1]

\* the longest list split into at least three batches of the derived size
C3_Witness ==
    /\ op = "calculate_page_breaks"
    /\ args[2] = None
    /\ Len(ret) >= 3
    /\ Len(args[1]) = MaxItems

\* C4: needs_pagination(h) is false on every continuous config, and on a
\* fixed-height config true exactly when h exceeds printable height times
\* page_break_threshold (h at the threshold is not paginated).
C4_NeedsPaginationIffAboveThreshold ==
    op = "needs_pagination" =>
        LET size      == BillSize[config.size]
            margins   == MarginsAt(DEFAULT_MARGINS, config.margins)
            printable == size.height_mm - (margins.top + margins.bottom)
        IN  IF size.height_mm = 0 THEN ret = FALSE
            ELSE ret = (args[1] > printable * config.page_break_threshold)

\* a fixed-height config asked about content exactly at its threshold
C4_Witness ==
    /\ op = "needs_pagination"
    /\ ~is_continuous(config.size)
    /\ args[1] = printable_height_mm(config) * config.page_break_threshold
    /\ ret = FALSE

\* C5: the margins of every default config are positive on all four sides
\* and pass validate_margins for the size's category.
C5_DefaultMarginsAreValid ==
    op = "get_default_config" =>
        LET margins == MarginsAt(DEFAULT_MARGINS, ret.margins)
        IN  /\ margins.top > 0 /\ margins.right > 0
            /\ margins.bottom > 0 /\ margins.left > 0
            /\ validate_margins(margins, BillSize[ret.size].category)
                 = <<TRUE, <<>>>>

\* a thermal COMPACT config: its margins are exactly the thermal minimum
C5_Witness ==
    /\ op = "get_default_config"
    /\ args = <<"THERMAL_57", "COMPACT">>
    /\ MarginsAt(DEFAULT_MARGINS, ret.margins) = MIN_MARGINS["thermal"]

\* the sides of margins below min, in the order top, right, bottom, left
FailingSides(margins, min) ==
    SelectSeq(<<"top", "right", "bottom", "left">>,
              LAMBDA side : margins[side] < min)

SideLabel == [top |-> "Top", right |-> "Right", bottom |-> "Bottom", left |-> "Left"]

\* C6: validate_margins returns (True, "") exactly when all four sides are
\* >= the category minimum (paper 5, thermal 2), and otherwise False with
\* one message entry for every failing side; it never raises.
C6_ValidateMarginsListsEveryFailingSide ==
    op = "validate_margins" =>
        LET min     == IF args[2] = "thermal" THEN 2 ELSE 5
            failing == FailingSides(args[1], min)
        IN  /\ DOMAIN ret = 1..2
            /\ ret[1] = (failing = <<>>)
            /\ ret[1] => ret[2] = <<>>
            /\ Len(ret[2]) = Len(failing)
            /\ \A i \in 1..Len(failing) : ret[2][i].side = SideLabel[failing[i]]

\* margins with a side at the minimum accepted, and margins with several
\* failing sides all reported
C6_Witness ==
    /\ op = "validate_margins"
    /\ args[2] = "paper"
    /\ args[1] = Margins(4, 5, 6, 0)
    /\ ret[1] = FALSE
    /\ Len(ret[2]) = 2

\* the position of a size in the enumeration order
OrderOf(size) == CHOOSE i \in 1..Len(BillSizeOrder) : BillSizeOrder[i] = size

\* the squared distance to (w, h): |width - w| for a continuous size,
\* Euclidean over (width, height) for a fixed one
DistanceSq(size, w, h) ==
    LET dw == BillSize[size].width_mm - w
        dh == BillSize[size].height_mm - h
    IN  IF BillSize[size].height_mm = 0 THEN dw * dw ELSE dw * dw + dh * dh

\* C7: find_closest_size returns a size of the preferred category, never
\* None, at minimal distance within that category and first in enumeration
\* order among the equally close ones; exact dimensions return that size
\* (210x297 -> A4) and (78, 0, thermal) returns THERMAL_76.
C7_ClosestSizeFirstAmongNearest ==
    op = "find_closest_size" =>
        LET w == args[1]
            h == args[2]
            candidates == { s \in Sizes : is_thermal(s) = args[3] }
        IN  /\ ret \in candidates
            /\ \A s \in candidates :
                  \/ DistanceSq(ret, w, h) < DistanceSq(s, w, h)
                  \/ /\ DistanceSq(ret, w, h) = DistanceSq(s, w, h)
                     /\ OrderOf(ret) <= OrderOf(s)
            /\ (w = 210 /\ h = 297 /\ ~args[3]) => ret = "A4"
            /\ (w = 78 /\ h = 0 /\ args[3]) => ret = "THERMAL_76"
            /\ \A s \in candidates :
                  (w = BillSize[s].width_mm /\ h = BillSize[s].height_mm)
                      => ret = s

\* the tie between THERMAL_76 and THERMAL_80 at 78mm
C7_Witness ==
    /\ op = "find_closest_size"
    /\ args = <<78, 0, TRUE>>
    /\ ret = "THERMAL_76"

\* C8: on a thermal default config a name longer than 0.45 * chars_per_line
\* is truncated and shown ending in "..."; any other name is shown as it
\* is, not truncated; lines is always the one-element list [display_name].
C8_ThermalNameTruncation ==
    (op = "calculate_item_layout" /\ is_thermal(config.size)) =>
        /\ IF Len(args[1]) * 100 > 45 * config.chars_per_line
           THEN ret.truncated = TRUE /\ EndsWith(ret.display_name, Ellipsis)
           ELSE ret.truncated = FALSE /\ ret.display_name = args[1]
        /\ ret.lines = <<ret.display_name>>

\* a thermal name over the budget, shown shortened
C8_Witness ==
    /\ op = "calculate_item_layout"
    /\ is_thermal(config.size)
    /\ Len(args[1]) * 100 > 45 * config.chars_per_line
    /\ ret.truncated
    /\ Len(ret.display_name) < Len(args[1])

\* C9: on a paper default config calculate_item_layout returns at most
\* max_lines_per_item (3) lines for every name, also for a name longer than
\* the 40-character budget that has no word boundary.
C9_PaperLinesWithinLimit ==
    (op = "calculate_item_layout" /\ ~is_thermal(config.size)) =>
        /\ DOMAIN ret = {"display_name", "lines", "truncated"}
        /\ Len(ret.lines) <= config.max_lines_per_item
        /\ config.max_lines_per_item = 3

\* a name longer than the budget without a word boundary, laid out on paper
C9_Witness ==
    /\ op = "calculate_item_layout"
    /\ ~is_thermal(config.size)
    /\ Len(args[1]) > 40
    /\ \A i \in 1..Len(args[1]) : args[1][i] # " "
    /\ ret.lines = <<args[1]>>

\* C10: when the estimated height of the whole list needs no pagination,
\* calculate_page_breaks returns the single batch [items] whatever
\* items_per_page is; so does every thermal config for every list, and
\* every default config for the empty list.
C10_SingleBatchWhenFits ==
    op = "calculate_page_breaks" =>
        /\ ~ListNeedsPagination => ret = <<args[1]>>
        /\ is_thermal(config.size) => ret = <<args[1]>>
        /\ args[1] = <<>> => ret = << <<>> >>

\* THERMAL_80/COMPACT with 3 items and an explicit page size of 1
C10_Witness ==
    /\ op = "calculate_page_breaks"
    /\ config.size = "THERMAL_80"
    /\ config.style = "COMPACT"
    /\ Len(args[1]) = 3
    /\ args[2] = Some(1)
    /\ ret = <<args[1]>>

\* C12: the config get_default_config returns has chars_per_line = 0 on every
\* non-thermal size; on every thermal size and style chars_per_line is
\* floor(printable_width_mm / 2.5) of that same config and is positive
C12_CharsPerLineFromPrintableWidth ==
    op = "get_default_config" =>
        LET cpl == ret.chars_per_line
            pw  == printable_width_mm(ret)
        IN  IF is_thermal(ret.size)
            THEN cpl > 0 /\ 5 * cpl <= 2 * pw /\ 2 * pw < 5 * (cpl + 1)
            ELSE cpl = 0

\* THERMAL_58 in the COMPACT style: 54 mm printable, 21 characters
C12_Witness ==
    /\ op = "get_default_config"
    /\ is_thermal(ret.size)
    /\ printable_width_mm(ret) = 54
    /\ ret.chars_per_line = 21

\* C13: for every text and every width >= 0, optimize_for_thermal(text, width)
\* is text itself when len(text) <= width; otherwise it has exactly width
\* characters, the first width - 3 characters of text followed by "..." when
\* width > 3 and the first width characters of text otherwise; the result
\* never has more than width characters
C13_OptimizeForThermalFitsWidth ==
    (op = "optimize_for_thermal" /\ args[2] >= 0) =>
        LET text  == args[1]
            width == args[2]
        IN  /\ Len(ret) <= width
            /\ IF Len(text) <= width THEN ret = text
               ELSE /\ Len(ret) = width
                    /\ IF width > 3
                       THEN ret = SubSeq(text, 1, width - 3) \o Ellipsis
                       ELSE ret = SubSeq(text, 1, width)

\* a text of 6 characters cut to 4: one character and the ellipsis
C13_Witness ==
    /\ op = "optimize_for_thermal"
    /\ Len(args[1]) = 6
    /\ args[2] = 4
    /\ ret = <<args[1][1]>> \o Ellipsis

\* C14: calculate_qr_layout(n) returns count = min(n, max_qr_codes); on a
\* thermal config the arrangement is "vertical" with 2mm spacing and the
\* full configured QR size, and the count is at most 1; on a paper config it
\* is "horizontal" with 5mm spacing and the full size when count <= 2, and a
\* 2x2 "grid" with 80% of the configured size and 5mm spacing when count > 2
C14_QrLayoutArrangement ==
    op = "calculate_qr_layout" =>
        LET n     == args[1]
            count == IF n <= config.max_qr_codes THEN n ELSE config.max_qr_codes
        IN  /\ ret.count = count
            /\ IF is_thermal(config.size)
               THEN /\ ret = [ count |-> count, arrangement |-> "vertical",
                               size_mm |-> 10 * config.qr_size_mm,
                               spacing_mm |-> 2 ]
                    /\ count <= 1
               ELSE IF count <= 2
               THEN ret = [ count |-> count, arrangement |-> "horizontal",
                            size_mm |-> 10 * config.qr_size_mm,
                            spacing_mm |-> 5 ]
               ELSE /\ ret.arrangement = "grid"
                    /\ ret.rows = 2
                    /\ ret.cols = 2
                    /\ 100 * ret.size_mm = 80 * (10 * config.qr_size_mm)
                    /\ ret.spacing_mm = 5

\* four codes asked of a config that allows three: a grid of three
C14_Witness ==
    /\ op = "calculate_qr_layout"
    /\ args[1] = 4
    /\ ret.count = 3
    /\ ret.arrangement = "grid"

\* C15: estimate_content_height(n, has_qr, has_logo) is
\* 85 + (n + 1) * row_height + (logo_max_height_mm + 5 if has_logo)
\* + (qr_size_mm + 10 if has_qr), the row height being 5 on thermal and 7 on
\* paper; it is strictly larger for n + 1 items, and strictly larger with a
\* QR block or a logo than without
C15_ContentHeightFormula ==
    op = "estimate_content_height" =>
        LET n          == args[1]
            has_qr     == args[2]
            has_logo   == args[3]
            row_height == IF is_thermal(config.size) THEN 5 ELSE 7
        IN  /\ ret = 85 + (n + 1) * row_height
                      + (IF has_logo THEN config.logo_max_height_mm + 5 ELSE 0)
                      + (IF has_qr THEN config.qr_size_mm + 10 ELSE 0)
            /\ estimate_content_height(config, n + 1, has_qr, has_logo) > ret
            /\ has_qr => ret > estimate_content_height(config, n, FALSE, has_logo)
            /\ has_logo => ret > estimate_content_height(config, n, has_qr, FALSE)

\* test_content_height_estimation's second case cut to 4 items on A4:
\* 85 + 5 * 7 + 30 + 30
C15_Witness ==
    /\ op = "estimate_content_height"
    /\ config.size = "A4"
    /\ args = <<4, TRUE, TRUE>>
    /\ ret = 180

\* the sum of f[k] over the keys k
RECURSIVE SumValues(_, _)
SumValues(f, keys) ==
    IF keys = {} THEN 0
    ELSE LET k == CHOOSE key \in keys : TRUE
         IN  f[k] + SumValues(f, keys \ {k})

\* C16: for every (size, style) pair the column_widths fractions of the
\* config get_default_config returns sum to 1.0, that is to exactly 100
\* hundredths
C16_ColumnWidthsSumToOne ==
    op = "get_default_config" =>
        SumValues(ret.column_widths, DOMAIN ret.column_widths) = 100

\* a DETAILED paper config: five columns, the description among them
C16_Witness ==
    /\ op = "get_default_config"
    /\ args[2] = "DETAILED"
    /\ DOMAIN ret.column_widths = {"item", "description", "qty", "price", "total"}
    /\ ret.column_widths.description = 25

\* what center_text(text, width) is to return: at most width characters,
\* text after floor((width - len(text)) / 2) spaces and nothing behind it
\* when len(text) < width, optimize_for_thermal(text, width) otherwise
CenterTextAsDocumented(text, width, result) ==
    /\ Len(result) <= width
    /\ IF Len(text) < width
       THEN result = [i \in 1..((width - Len(text)) \div 2) |-> " "] \o text
       ELSE result = optimize_for_thermal(text, width)

\* C18 as stated: for every text and every width, center_text(text, width)
\* has at most width characters; it is text preceded by exactly
\* floor((width - len(text)) / 2) spaces, with no trailing padding, when
\* len(text) < width, and optimize_for_thermal(text, width) when
\* len(text) >= width
C18_CenterTextAnyWidth ==
    op = "center_text" => CenterTextAsDocumented(args[1], args[2], ret)

\* C18 amended: the same for every width >= 0
C18_CenterTextNonNegativeWidth ==
    (op = "center_text" /\ args[2] >= 0) =>
        CenterTextAsDocumented(args[1], args[2], ret)

\* a text of 3 characters centred in 10: 3 leading spaces, 6 characters
C18_Witness ==
    /\ op = "center_text"
    /\ Len(args[1]) = 3
    /\ args[2] = 10
    /\ ret = <<" ", " ", " ">> \o args[1]

\* the name has a word (a maximal run of non-space characters) of more than
\* budget characters
HasWordLongerThan(name, budget) ==
    \E i \in 1..(Len(name) - budget) :
        \A j \in i..(i + budget) : ~IsSpace(name[j])

\* C20: every line calculate_item_layout returns on a paper config with
\* wrapping enabled has at most 40 characters; a name that cannot be fitted
\* within the budget (one with a single word of more than 40 characters) is
\* truncated with an ellipsis and reported with truncated = TRUE
C20_PaperLinesFitWrapBudget ==
    (op = "calculate_item_layout" /\ ~is_thermal(config.size)
        /\ config.wrap_item_names) =>
        /\ \A i \in 1..Len(ret.lines) : Len(ret.lines[i]) <= 40
        /\ HasWordLongerThan(args[1], 40) =>
              /\ ret.truncated
              /\ \E i \in 1..Len(ret.lines) : EndsWith(ret.lines[i], Ellipsis)

\* the config get_default_config(size, style) is documented to return: the
\* one it returns on the initial tables
DocumentedDefault(size, style) ==
    LET margins == MarginsAt(InitialDefaultMargins, DefaultMarginsRef(size, style))
    IN  [ get_default_config(size, style) EXCEPT
            !.margins = margins,
            !.chars_per_line = DefaultCharsPerLine(size, margins) ]

\* C11: after any sequence of get_default_config calls and field writes on
\* the returned configs (their margins, fonts and column_widths included)
\* DEFAULT_MARGINS is unchanged (MIN_MARGINS and FONT_SCALES are never
\* handed out), a config returned to an earlier caller still reads as it
\* did when it was returned, and a fresh get_default_config(size, style)
\* returns the documented defaults
C11_ConfigsShareNoMutableState ==
    /\ DEFAULT_MARGINS = InitialDefaultMargins
    /\ (held # None /\ held[1].op = "get_default_config") =>
            Observed(held[1].ret) = held[1].seen
    /\ \A size \in Sizes, style \in LayoutStyle :
            Observed(get_default_config(size, style)) = DocumentedDefault(size, style)

C19_GenerateInvoiceDispatch ==
    [][ op' = "generate_invoice" =>
            LET order_id    == args'[1]
                bill_size   == args'[2]
                output_path == args'[4]
                renderers   == { calls'[i] : i \in 1..Len(calls') }
                                 \cap { "_generate_thermal_invoice",
                                        "_generate_paper_invoice" }
            IN  IF order_id \notin Orders
                THEN /\ ret' = Raised("ValueError")
                     /\ calls' = <<"_fetch_order_data">>
                     /\ config' = NoConfig
                     /\ files' = files
                ELSE /\ renderers = IF is_thermal(bill_size)
                                    THEN {"_generate_thermal_invoice"}
                                    ELSE {"_generate_paper_invoice"}
                     /\ output_path # None => ret' = output_path[1]
      ]_vars

\* the missing order 99999: ValueError, nothing resolved, no file
C19_Witness ==
    /\ op = "generate_invoice"
    /\ args[1] \notin Orders
    /\ ret = Raised("ValueError")
    /\ config = NoConfig
    /\ files = {}

\* the greedy 40-character word wrap of a name
WrappedLines(name) == WrapLoop(split(name), 1, <<>>, <<>>)

C22_DerivedItemsPerPage ==
    (/\ op = "calculate_page_breaks"
     /\ ~is_thermal(config.size)
     /\ (args[2] = None \/ args[2] = Some(0))
     /\ ListNeedsPagination)
    => LET height   == printable_height_mm(config)
           per_page == CHOOSE k \in 0..height :
                          70 * k <= 6 * height /\ 6 * height < 70 * (k + 1)
       IN  /\ per_page >= 1
           /\ IsSplitIntoBatchesOf(ret, Len(args[1]), per_page)
           /\ (config.size = "A5" /\ config.style = "CLASSIC" /\ Len(args[1]) = 40)
                 => [i \in 1..Len(ret) |-> Len(ret[i])] = <<16, 16, 8>>

\* 40 items on A5/CLASSIC with items_per_page omitted: three batches
C22_Witness ==
    /\ op = "calculate_page_breaks"
    /\ config.size = "A5"
    /\ config.style = "CLASSIC"
    /\ args = <<ItemsOf(40), None>>
    /\ Len(ret) = 3
    /\ Len(ret[3]) = 8

\* C23: in format_thermal_line with width >= 3, when len(left) + len(right)
\* > width the left field is cut by optimize_for_thermal to at most
\* floor(0.6 * (width - 3)) characters and the right field to at most
\* (width - 3) minus that; in every case the line is the (possibly cut) left
\* field, at least one space, and the (possibly cut) right field
C23_FieldsCutAndSeparated ==
    (op = "format_thermal_line" /\ args[3] >= 3) =>
        LET left        == args[1]
            right       == args[2]
            width       == args[3]
            overflow    == Len(left) + Len(right) > width
            left_chars  == CHOOSE k \in 0..width :
                              10 * k <= 6 * (width - 3)
                              /\ 6 * (width - 3) < 10 * (k + 1)
            right_chars == (width - 3) - left_chars
            l == IF overflow THEN optimize_for_thermal(left, left_chars) ELSE left
            r == IF overflow THEN optimize_for_thermal(right, right_chars) ELSE right
            padding == Len(ret) - Len(l) - Len(r)
        IN  /\ overflow => (Len(l) <= left_chars /\ Len(r) <= right_chars)
            /\ padding >= 1
            /\ ret = l \o [i \in 1..padding |-> " "] \o r

\* two fields of 6 characters on a line of 10: 4 and 3 characters are kept
C23_Witness ==
    /\ op = "format_thermal_line"
    /\ Len(args[1]) = 6
    /\ Len(args[2]) = 6
    /\ args[3] = 10
    /\ ret = <<args[1][1]>> \o Ellipsis \o <<" ", " ", " ">> \o SubSeq(args[2], 1, 3)

\* the documented margin, in mm on every side, of a size in a style
DocumentedMargin(size, style) ==
    IF BillSize[size].category = "thermal"
    THEN (IF style = "COMPACT" THEN 2 ELSE 3)
    ELSE IF size \in {"A3", "LETTER", "LEGAL"} THEN 15
    ELSE IF size = "A4" THEN 12
    ELSE IF size \in {"A5", "HALF_LETTER"} THEN 10
    ELSE 5

\* C24: get_default_config answers for all 13 sizes and 4 styles, and its
\* result is the documented table: the margins by size class, max_qr_codes,
\* qr_size_mm, logo_max_height_mm, show_borders (false iff MINIMAL),
\* wrap_item_names (true iff not thermal), max_lines_per_item,
\* page_break_threshold 0.85, and column_widths the compact table when the
\* style is COMPACT or the size thermal, the detailed table for DETAILED on
\* paper and the classic table otherwise
C24_DefaultConfigTable ==
    /\ Cardinality(Sizes) = 13
    /\ Cardinality(LayoutStyle) = 4
    /\ op = "get_default_config" =>
        LET size    == args[1]
            style   == args[2]
            thermal == BillSize[size].category = "thermal"
            large   == size \in {"A3", "LETTER", "LEGAL"}
            m       == DocumentedMargin(size, style)
        IN  /\ ret.size = size
            /\ ret.style = style
            /\ Observed(ret).margins = [top |-> m, right |-> m, bottom |-> m, left |-> m]
            /\ ret.max_qr_codes = (IF thermal THEN 1 ELSE IF large THEN 3 ELSE 2)
            /\ ret.qr_size_mm = (IF thermal THEN 15 ELSE IF size = "A3" THEN 25 ELSE 20)
            /\ ret.logo_max_height_mm =
                  (IF thermal THEN 15 ELSE IF size = "A3" THEN 30 ELSE 25)
            /\ ret.show_borders <=> style # "MINIMAL"
            /\ ret.wrap_item_names <=> ~thermal
            /\ ret.max_lines_per_item = (IF thermal THEN 1 ELSE 3)
            /\ ret.page_break_threshold = 85
            /\ ret.column_widths =
                  (IF style = "COMPACT" \/ thermal
                   THEN [item |-> 45, qty |-> 15, price |-> 20, total |-> 20]
                   ELSE IF style = "DETAILED"
                   THEN [item |-> 35, description |-> 25, qty |-> 10,
                         price |-> 15, total |-> 15]
                   ELSE [item |-> 40, qty |-> 15, price |-> 20, total |-> 25])

\* a thermal size in the DETAILED style: the compact columns, no description
C24_Witness ==
    /\ op = "get_default_config"
    /\ BillSize[args[1]].category = "thermal"
    /\ args[2] = "DETAILED"
    /\ DOMAIN ret.column_widths = {"item", "qty", "price", "total"}

\* the set of the elements of a list
ElementsOf(list) == { list[i] : i \in 1..Len(list) }

\* C25: every BillSize has width_mm > 0 and height_mm >= 0, and height_mm = 0
\* exactly when its category is thermal, so is_continuous and is_thermal
\* agree on all 13 sizes; the paper and the thermal size lists partition the
\* list of all sizes; printable_height_mm is 0 on the thermal default configs
\* and positive on the paper ones
C25_BillSizeInvariants ==
    /\ \A size \in Sizes :
          /\ BillSize[size].width_mm > 0
          /\ BillSize[size].height_mm >= 0
          /\ BillSize[size].height_mm = 0 <=> BillSize[size].category = "thermal"
          /\ is_continuous(size) <=> is_thermal(size)
    /\ op = "get_all_sizes" =>
          /\ Len(ret) = 13
          /\ ElementsOf(ret) = Sizes
    /\ op = "get_paper_sizes" =>
          /\ ElementsOf(ret) = { size \in Sizes : BillSize[size].category # "thermal" }
          /\ ElementsOf(ret) \cap ElementsOf(get_thermal_sizes) = {}
          /\ ElementsOf(ret) \cup ElementsOf(get_thermal_sizes) = ElementsOf(get_all_sizes)
          /\ Len(ret) + Len(get_thermal_sizes) = Len(get_all_sizes)
    /\ op = "get_thermal_sizes" =>
          /\ ElementsOf(ret) = { size \in Sizes : BillSize[size].category = "thermal" }
          /\ Len(ret) + Len(get_paper_sizes) = Len(get_all_sizes)
    /\ op = "get_default_config" =>
          IF BillSize[ret.size].category = "thermal"
          THEN printable_height_mm(ret) = 0
          ELSE printable_height_mm(ret) > 0

\* the four thermal sizes, in definition order
C25_Witness ==
    /\ op = "get_thermal_sizes"
    /\ ret = <<"THERMAL_57", "THERMAL_58", "THERMAL_76", "THERMAL_80">>

\* the five sizes are floor(size * factor / 100) of the receiver's and the
\* two font families are the receiver's
IsFloorScaled(f, factor, scaled) ==
    /\ scaled.base_size = (f.base_size * factor) \div 100
    /\ scaled.title_size = (f.title_size * factor) \div 100
    /\ scaled.header_size = (f.header_size * factor) \div 100
    /\ scaled.item_size = (f.item_size * factor) \div 100
    /\ scaled.footer_size = (f.footer_size * factor) \div 100
    /\ scaled.mono_font = f.mono_font
    /\ scaled.sans_font = f.sans_font

\* the fonts of a default config are the base sizes (10, 16, 12, 9, 8)
\* scaled by the size's factor from FONT_SCALES (1.0 when unlisted), each a
\* positive integer
DefaultFontsAsDocumented ==
    op = "get_default_config" =>
        /\ IsFloorScaled(FontSettings(10, 16, 12, 9, 8),
                         IF args[1] \in DOMAIN FONT_SCALES
                         THEN FONT_SCALES[args[1]] ELSE 100,
                         ret.fonts)
        /\ \A size \in { ret.fonts.base_size, ret.fonts.title_size,
                          ret.fonts.header_size, ret.fonts.item_size,
                          ret.fonts.footer_size } : size \in Nat \ {0}

\* C26 as stated: FontSettings.scale(factor) returns a new FontSettings
\* whose five sizes are floor(size * factor) and whose two font families are
\* unchanged, for every factor; the fonts of every default config are the
\* base sizes scaled by the size's factor, each a positive integer
C26_ScaleFloorsAnyFactor ==
    /\ op = "scale" => IsFloorScaled(args[1], args[2], ret)
    /\ DefaultFontsAsDocumented

\* C26 amended: the same for every factor >= 0; for a negative factor each
\* size is size * factor truncated toward zero
C26_ScaleFloorsNonNegativeFactor ==
    /\ (op = "scale" /\ args[2] >= 0) => IsFloorScaled(args[1], args[2], ret)
    /\ (op = "scale" /\ args[2] < 0) =>
          /\ ret.base_size = -(((-args[2]) * args[1].base_size) \div 100)
          /\ ret.item_size = -(((-args[2]) * args[1].item_size) \div 100)
          /\ ret.mono_font = args[1].mono_font
          /\ ret.sans_font = args[1].sans_font
    /\ DefaultFontsAsDocumented

\* the base fonts scaled by 0.85: 8.5, 13.6, 10.2, 7.65 and 6.8 truncated
C26_Witness ==
    /\ op = "scale"
    /\ args = <<FontSettings(10, 16, 12, 9, 8), 85>>
    /\ ret = FontSettings(8, 13, 10, 7, 6)

\* C27: for every default config, thermal or paper, and every item name,
\* the empty and the whitespace-only names included, calculate_item_layout
\* returns a lines list with at least one element
C27_LinesNeverEmpty ==
    (/\ op = "calculate_item_layout"
     /\ config = get_default_config(config.size, config.style)) =>
        Len(ret.lines) >= 1

\* C28: for every paper default config and every item list that needs
\* pagination, each batch calculate_page_breaks produces with the derived
\* items_per_page fits one page by the engine's own estimate:
\* needs_pagination(estimate_content_height(len(batch), False, False)) is
\* false, and calculate_page_breaks applied again to the batch returns it as
\* a single page
C28_BatchesFitOnePage ==
    (/\ op = "calculate_page_breaks"
     /\ ~is_thermal(config.size)
     /\ args[2] = None
     /\ ListNeedsPagination)
    => \A i \in 1..Len(ret) :
          /\ ~needs_pagination(config,
                 100 * estimate_content_height(config, Len(ret[i]), FALSE, FALSE))
          /\ calculate_page_breaks(config, ret[i], None) = <<ret[i]>>

\* C29: for every thermal config returned by get_default_config and every
\* item name, the display_name calculate_item_layout returns has at most
\* floor(0.45 * chars_per_line) characters, the ellipsis included, and is
\* never longer than the original name
C29_DisplayNameFitsItemColumn ==
    (/\ op = "calculate_item_layout"
     /\ is_thermal(config.size)
     /\ config = get_default_config(config.size, config.style)) =>
        /\ Len(ret.display_name) <= (45 * config.chars_per_line) \div 100
        /\ Len(ret.display_name) <= Len(args[1])

\* a name of 14 characters on 29 characters per line (budget 13.05): cut to
\* 10 characters and the ellipsis, 13 in all
C29_Witness ==
    /\ op = "calculate_item_layout"
    /\ is_thermal(config.size)
    /\ config.chars_per_line = 29
    /\ Len(args[1]) = 14
    /\ ret.truncated
    /\ Len(ret.display_name) = 13

\* C30: on a paper config with wrapping, whenever calculate_item_layout
\* returns truncated = False, the returned lines joined with single spaces
\* are the item name with its whitespace runs collapsed to single spaces and
\* its ends trimmed (no word dropped, split or reordered), and display_name
\* is the original name
C30_UntruncatedLinesKeepEveryWord ==
    (/\ op = "calculate_item_layout"
     /\ ~is_thermal(config.size)
     /\ config.wrap_item_names
     /\ ~ret.truncated) =>
        /\ join(ret.lines) = join(split(args[1]))
        /\ split(join(ret.lines)) = split(args[1])
        /\ ret.display_name = args[1]

\* a name wrapped onto more than one line, none of them cut
C30_Witness ==
    /\ op = "calculate_item_layout"
    /\ ~is_thermal(config.size)
    /\ config.wrap_item_names
    /\ ~ret.truncated
    /\ Len(ret.lines) >= 2
    /\ join(ret.lines) # args[1]

=============================================================================
